---- MODULE Spec2Model ----
(***************************************************************************)
(* Model of the indexing pipeline of ocr_search (src/index.py):            *)
(* index_folder submits one process_file task per file to a thread pool,   *)
(* collects the results in completion order, buffers the records in        *)
(* file_list and hands the buffer to insert_files_into_db, which writes it *)
(* to the files table in one sqlite transaction.                           *)
(*                                                                         *)
(* Text is modelled as sequences of one-character strings, so that the     *)
(* concatenation in generate_file_id is a real concatenation.              *)
(***************************************************************************)
EXTENDS Integers, Sequences, FiniteSets, TLC

\* ------------------------------------------------------------------ bounds
\* Number of files os.walk finds under folder_path.
NumPaths == 4

\* The buffer threshold of index_folder.  The source uses the literal 50
\* (src/index.py:158); the model scales it down so that full batches,
\* partial batches and the final flush all occur with NumPaths files.
BatchSize == 2

\* Worker threads of the ThreadPoolExecutor (its default max_workers).
MaxWorkers == 2

Paths == 1 .. NumPaths

\* Python's None: a one-element sequence that no text (a sequence of
\* characters) and no pair of integers equals.
None == <<"None">>

\* ------------------------------------------------------------ text helpers
Digit(d) == CASE d = 0 -> "0" [] d = 1 -> "1" [] d = 2 -> "2" [] d = 3 -> "3"
              [] d = 4 -> "4" [] d = 5 -> "5" [] d = 6 -> "6" [] d = 7 -> "7"
              [] d = 8 -> "8" [] d = 9 -> "9"

Digits == {"0", "1", "2", "3", "4", "5", "6", "7", "8", "9"}

RECURSIVE str(_)
\* Python's f-string rendering of a non-negative int.
str(n) == IF n < 10 THEN <<Digit(n)>> ELSE str(n \div 10) \o <<Digit(n % 10)>>

\* The f-string rendering of a text field that may be None.
fmt(s) == IF s = None THEN <<"N", "o", "n", "e">> ELSE s

\* ------------------------------------------------------- the directory tree
\* The files under folder_path, in os.walk order.  Files 1, 4, 7, ... have
\* the same basename and size in different directories (and different
\* pixels); every third file has no extension.
Kind(p) == (p - 1) % 3

basename(p) == CASE Kind(p) = 0 -> <<"2", "0", "2", "4", "-", "0", "1", "-", "0", "1", "_", "a", ".", "j", "p", "g">>
                 [] Kind(p) = 1 -> <<"b", ".", "m", "p", "4">>
                 [] Kind(p) = 2 -> <<"c">>

getsize(p) == CASE Kind(p) = 0 -> 12
                [] Kind(p) = 1 -> 7
                [] Kind(p) = 2 -> 3

\* What the decoders read from the file's bytes: differs from file to file.
img_size(p) == <<800 + p, 600>>

image_to_string(p) == <<"t">> \o str(p)

\* os.path.splitext: split at the last dot, unless the name has no dot or
\* only leading dots.
LastDot(s) == IF \E i \in 1 .. Len(s) : s[i] = "."
              THEN CHOOSE i \in 1 .. Len(s) :
                     s[i] = "." /\ \A j \in (i + 1) .. Len(s) : s[j] # "."
              ELSE 0

splitext(s) == LET d == LastDot(s)
               IN IF d = 0 \/ \A i \in 1 .. d : s[i] = "."
                  THEN <<s, <<>>>>
                  ELSE <<SubSeq(s, 1, d - 1), SubSeq(s, d, Len(s))>>

\* mimetypes.guess_type: by extension only.
guess_type(s) == LET ext == splitext(s)[2]
                 IN CASE ext = <<".", "j", "p", "g">> ->
                           <<"i", "m", "a", "g", "e", "/", "j", "p", "e", "g">>
                      [] ext = <<".", "m", "p", "4">> ->
                           <<"v", "i", "d", "e", "o", "/", "m", "p", "4">>
                      [] ext = <<".", "t", "x", "t">> ->
                           <<"t", "e", "x", "t", "/", "p", "l", "a", "i", "n">>
                      [] OTHER -> None

startswith(s, prefix) == /\ Len(s) >= Len(prefix)
                         /\ SubSeq(s, 1, Len(prefix)) = prefix

\* re.match(r'^(\d{4}-\d{2}-\d{2})_', filename)
extract_date_from_filename(filename) ==
    IF /\ Len(filename) >= 11
       /\ \A i \in {1, 2, 3, 4, 6, 7, 9, 10} : filename[i] \in Digits
       /\ filename[5] = "-" /\ filename[8] = "-" /\ filename[11] = "_"
    THEN SubSeq(filename, 1, 10)
    ELSE None

\* Faulty variant: text recognition runs on every file with a MIME type.
get_file_info_ocr_all(p, opened) ==
    LET mime_type == guess_type(basename(p))
        parts     == splitext(basename(p))
        isImage   == mime_type # None /\ startswith(mime_type, <<"i", "m", "a", "g", "e">>)
        isVideo   == mime_type # None /\ startswith(mime_type, <<"v", "i", "d", "e", "o">>)
    IN [size       |-> getsize(p),
        mime_type  |-> mime_type,
        filename   |-> parts[1],
        extension  |-> parts[2],
        resolution |-> IF isImage \/ (isVideo /\ opened) THEN img_size(p) ELSE None,
        ocr_text   |-> IF mime_type # None THEN image_to_string(p) ELSE None,
        date       |-> extract_date_from_filename(parts[1])]

\* get_file_info on the path that does not raise.  opened is the value of
\* video.isOpened() for a video file.
get_file_info(p, opened) ==
    LET mime_type == guess_type(basename(p))
        parts     == splitext(basename(p))
        isImage   == mime_type # None /\ startswith(mime_type, <<"i", "m", "a", "g", "e">>)
        isVideo   == mime_type # None /\ startswith(mime_type, <<"v", "i", "d", "e", "o">>)
    IN [size       |-> getsize(p),
        mime_type  |-> mime_type,
        filename   |-> parts[1],
        extension  |-> parts[2],
        resolution |-> IF isImage \/ (isVideo /\ opened) THEN img_size(p) ELSE None,
        ocr_text   |-> IF isImage THEN image_to_string(p) ELSE None,
        date       |-> extract_date_from_filename(parts[1])]

\* hashlib.sha256(...).hexdigest() is modelled as the identity on its input:
\* the digest is taken to be collision-free, so the id is the hashed text.
generate_file_id(file_info) ==
    str(file_info.size) \o file_info.filename \o file_info.extension
        \o fmt(file_info.mime_type)

\* The tuple process_file returns for a file whose extraction succeeded.
\* path is not part of the tuple: it tags the record with the task that
\* produced it and is dropped when the record is written (Row).
process_file_record(p, opened) ==
    LET file_info == get_file_info(p, opened)
    IN [id         |-> generate_file_id(file_info),
        filename   |-> file_info.filename,
        extension  |-> file_info.extension,
        size       |-> file_info.size,
        mime_type  |-> file_info.mime_type,
        resolution |-> IF file_info.resolution # None
                       THEN str(file_info.resolution[1]) \o <<"x">> \o str(file_info.resolution[2])
                       ELSE None,
        ocr_text   |-> file_info.ocr_text,
        date       |-> file_info.date,
        path       |-> p]

Row(rec) == [f \in DOMAIN rec \ {"path"} |-> rec[f]]

\* ------------------------------------------------------------- the store
Ids(rows) == {r.id : r \in rows}

\* Faulty variant: a plain INSERT that does not look at the primary key.
insert_always(rows, rec) == rows \cup {Row(rec)}

\* Faulty variant: INSERT OR REPLACE, the new row takes the place of the old.
insert_or_replace(rows, rec) == {r \in rows : r.id # rec.id} \cup {Row(rec)}

\* One INSERT OR IGNORE INTO files: the row is added unless a row with its
\* primary key is already in the table.
insert_or_ignore(rows, rec) ==
    IF rec.id \in Ids(rows) THEN rows ELSE rows \cup {Row(rec)}

RECURSIVE executemany(_, _)
\* cursor.executemany over file_list, in list order, inside the open
\* transaction.
executemany(rows, list) ==
    IF list = <<>> THEN rows
    ELSE executemany(insert_or_ignore(rows, Head(list)), Tail(list))

\* Faulty variant: the rows written before the exception stay in the table.
rollback_keeps(committed, view) == view

\* Faulty variant: one of the rows written before the exception stays in the table.
rollback_partial(committed, view) ==
    IF view \subseteq committed THEN committed
    ELSE committed \cup {CHOOSE r \in view : r \notin committed}

\* Leaving "with sqlite3.connect(...) as conn" by an exception: the
\* connection rolls the open transaction back, the table keeps the
\* committed rows.
rollback(committed, view) == committed

\* Faulty variant: get_file_info without its try/except.
future_kind_uncaught(extraction, logfail) ==
    IF logfail \/ extraction = "error" THEN "raised" ELSE "record"

\* What a task's future holds.  error is an exception raised inside the try
\* of get_file_info; logfail is an exception raised by log_function_timing
\* in a timed_function wrapper, which no handler of the task catches.
future_kind(extraction, logfail) ==
    IF logfail THEN "raised"
    ELSE IF extraction = "error" THEN "nil"
    ELSE "record"

\* Faulty variant: the buffer is handed over only when it exceeds the threshold.
buffer_full_gt(list) == Len(list) > BatchSize

\* index_folder, line 158: the buffer has reached the threshold.
buffer_full(list) == Len(list) >= BatchSize

\* --------------------------------------------------------------- the state
VARIABLES
    task,        \* per file: "unsubmitted", "queued", "running", "done"
    result,      \* per file: what its future holds
    attempts,    \* per file: how many times a worker started process_file
    yielded,     \* the futures as_completed has yielded
    completed,   \* the count of the progress bar
    pc,          \* where the main thread is in index_folder
    caller,      \* which call of insert_files_into_db is running
    exc,         \* the exception unwinding the main thread
    file_list,   \* the buffer of index_folder
    files,       \* the committed rows of the files table
    txn,         \* the open transaction of the connection, if any
    insert_ret,  \* what insert_files_into_db last returned to index_folder
    commits      \* history: every call of insert_files_into_db

vars == <<task, result, attempts, yielded, completed, pc, caller, exc,
          file_list, files, txn, insert_ret, commits>>

\* State outside a run of index_folder, which no step of a run changes.
VARIABLES
    runs,        \* history: the runs of index_folder over the tree so far
    fp_in,       \* two metadata records given to generate_file_id
    fp_out,      \* the ids it returned for them
    query,       \* the query given to search_ocr_text
    matches,     \* the rows it matched
    worker,      \* per file: where its process_file call is, step by step
    perf_lock    \* the task holding the write lock of performance_metrics.db

aux == <<runs, fp_in, fp_out, query, matches, worker, perf_lock>>

NoRuns == runs = <<>>

NoFingerprint == fp_in = None /\ fp_out = None

NotSearched == [returned |-> FALSE, rows |-> {}]

NoSearch == query = None /\ matches = NotSearched

\* The files of the tree, the first of Paths, whose process_file calls are
\* followed statement by statement.
NumCalls == 3

Calls == 1 .. NumCalls

\* A process_file call that has not begun.
NotCalled ==
    [pc |-> "queued", info |-> "none", video |-> "none", blocked |-> FALSE,
     ret |-> "none"]

NoWorkers == worker = [p \in Calls |-> NotCalled] /\ perf_lock = 0

AuxIdle == NoRuns /\ NoFingerprint /\ NoSearch /\ NoWorkers

NoResult == [kind |-> "pending", rec |-> None, extraction |-> "none", logfail |-> FALSE]

NoTxn == [open |-> FALSE, view |-> {}]

InPool == {"submit", "collect", "insert", "commit", "clear", "shutdown"}

Terminal == {"done", "raised", "exited", "abandoned"}

Submitted == {p \in Paths : task[p] # "unsubmitted"}

Running == {p \in Paths : task[p] = "running"}

\* index_folder is entered: nothing submitted, an empty buffer.
InitRun ==
    /\ task = [p \in Paths |-> "unsubmitted"]
    /\ result = [p \in Paths |-> NoResult]
    /\ attempts = [p \in Paths |-> 0]
    /\ yielded = {}
    /\ completed = 0
    /\ pc = "submit"
    /\ caller = "none"
    /\ exc = "none"
    /\ file_list = <<>>
    /\ txn = NoTxn
    /\ insert_ret = None
    /\ commits = <<>>

\* The first run over the tree, on an empty files table.
Init ==
    /\ InitRun
    /\ files = {}
    /\ AuxIdle

\* ------------------------------------------------------------ main thread
\* index_folder, lines 146-151: executor.submit for the next file of the walk.
Submit(p) ==
    /\ pc = "submit"
    /\ task[p] = "unsubmitted"
    /\ \A q \in 1 .. (p - 1) : task[q] # "unsubmitted"
    /\ task' = [task EXCEPT ![p] = "queued"]
    /\ pc' = IF p = NumPaths THEN "collect" ELSE "submit"
    /\ UNCHANGED <<result, attempts, yielded, completed, caller, exc,
                   file_list, files, txn, insert_ret, commits>>
    /\ UNCHANGED aux

\* Where the result loop goes once the futures in y have been yielded.
NextInLoop(y) == IF y = Paths THEN "shutdown" ELSE "collect"

\* index_folder, lines 153-158: as_completed yields a finished future,
\* future.result() returns or raises, a record is appended to file_list and
\* a full buffer is handed to insert_files_into_db.
Collect(p) ==
    /\ pc = "collect"
    /\ task[p] = "done"
    /\ p \notin yielded
    /\ yielded' = yielded \cup {p}
    /\ completed' = completed + 1
    /\ CASE result[p].kind = "raised" ->
              /\ exc' = "TaskError"
              /\ pc' = "shutdown"
              /\ UNCHANGED <<file_list, caller>>
         [] result[p].kind = "nil" ->
              /\ pc' = NextInLoop(yielded')
              /\ UNCHANGED <<file_list, caller, exc>>
         [] result[p].kind = "record" ->
              /\ file_list' = Append(file_list, result[p].rec)
              /\ IF buffer_full(file_list')
                 THEN pc' = "insert" /\ caller' = "loop"
                 ELSE pc' = NextInLoop(yielded') /\ UNCHANGED caller
              /\ UNCHANGED exc
    /\ UNCHANGED <<task, result, attempts, files, txn, insert_ret, commits>>
    /\ UNCHANGED aux

\* Where insert_files_into_db returns to.
ReturnPc == IF caller = "loop" THEN "clear" ELSE "done"

Logged(outcome) == Append(commits, [batch |-> file_list, outcome |-> outcome, site |-> caller])

\* insert_files_into_db, lines 169-188: connect, CREATE TABLE IF NOT EXISTS
\* and the executemany of the whole list.  Any of them may raise (a locked
\* database after the 10 s timeout, a storage fault); the handlers of
\* lines 191-194 print the error and the function returns None.
InsertBegin ==
    /\ pc = "insert"
    /\ \/ /\ txn' = [open |-> TRUE, view |-> executemany(files, file_list)]
          /\ pc' = "commit"
          /\ UNCHANGED <<files, insert_ret, commits>>
       \/ /\ txn' = NoTxn
          /\ \E k \in 0 .. Len(file_list) :
                files' = rollback(files, executemany(files, SubSeq(file_list, 1, k)))
          /\ commits' = Logged("failed")
          /\ insert_ret' = None
          /\ pc' = ReturnPc
    /\ UNCHANGED <<task, result, attempts, yielded, completed, caller, exc, file_list>>
    /\ UNCHANGED aux

\* insert_files_into_db, line 189: conn.commit() makes the transaction's
\* rows the table's rows, or raises and the transaction is rolled back.
InsertCommit ==
    /\ pc = "commit"
    /\ \/ /\ files' = txn.view
          /\ commits' = Logged("committed")
       \/ /\ files' = rollback(files, txn.view)
          /\ commits' = Logged("failed")
    /\ txn' = NoTxn
    /\ insert_ret' = None
    /\ pc' = ReturnPc
    /\ UNCHANGED <<task, result, attempts, yielded, completed, caller, exc, file_list>>
    /\ UNCHANGED aux

\* Faulty variant: the buffer is not cleared after the call.
Clear_keep ==
    /\ pc = "clear"
    /\ pc' = NextInLoop(yielded)
    /\ caller' = "none"
    /\ UNCHANGED <<task, result, attempts, yielded, completed, exc, file_list,
                   files, txn, insert_ret, commits>>
    /\ UNCHANGED aux

\* index_folder, line 160: file_list.clear() after the call returned.
Clear ==
    /\ pc = "clear"
    /\ file_list' = <<>>
    /\ pc' = NextInLoop(yielded)
    /\ caller' = "none"
    /\ UNCHANGED <<task, result, attempts, yielded, completed, exc, files,
                   txn, insert_ret, commits>>
    /\ UNCHANGED aux

\* Faulty variant: executor.shutdown(wait=False): the block is left at once.
Shutdown_nowait ==
    /\ pc = "shutdown"
    /\ pc' = CASE exc = "none" -> "flush"
               [] exc = "TaskError" -> "raised"
               [] exc = "SystemExit" -> "exited"
    /\ UNCHANGED <<task, result, attempts, yielded, completed, caller, exc,
                   file_list, files, txn, insert_ret, commits>>
    /\ UNCHANGED aux

\* Leaving the with block of line 144: executor.shutdown(wait=True) joins
\* the workers, which first run every task still queued; then the block is
\* left normally or the pending exception goes on unwinding.
Shutdown ==
    /\ pc = "shutdown"
    /\ \A p \in Submitted : task[p] = "done"
    /\ pc' = CASE exc = "none" -> "flush"
               [] exc = "TaskError" -> "raised"
               [] exc = "SystemExit" -> "exited"
    /\ UNCHANGED <<task, result, attempts, yielded, completed, caller, exc,
                   file_list, files, txn, insert_ret, commits>>
    /\ UNCHANGED aux

\* Faulty variant: index_folder without its final insert.
Flush_none ==
    /\ pc = "flush"
    /\ pc' = "done"
    /\ UNCHANGED <<task, result, attempts, yielded, completed, caller, exc,
                   file_list, files, txn, insert_ret, commits>>
    /\ UNCHANGED aux

\* index_folder, lines 163-164: the remaining records are inserted.
Flush ==
    /\ pc = "flush"
    /\ IF file_list # <<>>
       THEN pc' = "insert" /\ caller' = "final"
       ELSE pc' = "done" /\ UNCHANGED caller
    /\ UNCHANGED <<task, result, attempts, yielded, completed, exc,
                   file_list, files, txn, insert_ret, commits>>
    /\ UNCHANGED aux

\* signal_handler, lines 58-62: SIGINT raises SystemExit in the main thread
\* wherever it is.  Inside insert_files_into_db the connection's with block
\* rolls back and no handler catches SystemExit; inside the executor's with
\* block the shutdown waits for the workers; a SIGINT during that wait ends
\* the wait and the block is left with tasks unfinished.
Interrupt ==
    /\ pc \notin Terminal
    /\ exc' = "SystemExit"
    /\ files' = IF txn.open THEN rollback(files, txn.view) ELSE files
    /\ txn' = NoTxn
    /\ commits' = IF pc = "commit" THEN Logged("interrupted in transaction")
                  ELSE IF pc = "insert" THEN Logged("interrupted")
                  ELSE commits
    /\ pc' = IF pc = "shutdown" THEN "abandoned"
             ELSE IF pc \in InPool /\ caller # "final" THEN "shutdown"
             ELSE "exited"
    /\ UNCHANGED <<task, result, attempts, yielded, completed, caller,
                   file_list, insert_ret>>
    /\ UNCHANGED aux

\* ---------------------------------------------------------------- workers
\* Faulty variant: a thread is spawned for every submitted task.
Start_unbounded(p) ==
    /\ task[p] = "queued"
    /\ \A q \in 1 .. (p - 1) : task[q] # "queued"
    /\ task' = [task EXCEPT ![p] = "running"]
    /\ attempts' = [attempts EXCEPT ![p] = @ + 1]
    /\ UNCHANGED <<result, yielded, completed, pc, caller, exc, file_list,
                   files, txn, insert_ret, commits>>
    /\ UNCHANGED aux

\* A free worker thread takes the oldest queued task and calls process_file.
Start(p) ==
    /\ task[p] = "queued"
    /\ \A q \in 1 .. (p - 1) : task[q] # "queued"
    /\ Cardinality(Running) < MaxWorkers
    /\ task' = [task EXCEPT ![p] = "running"]
    /\ attempts' = [attempts EXCEPT ![p] = @ + 1]
    /\ UNCHANGED <<result, yielded, completed, pc, caller, exc, file_list,
                   files, txn, insert_ret, commits>>
    /\ UNCHANGED aux

IsVideo(p) == get_file_info(p, TRUE).resolution # None /\ get_file_info(p, TRUE).ocr_text = None

\* Faulty variant: a process_file that writes its record to the files table itself.
process_file_writes(p) ==
    /\ task[p] = "running"
    /\ result' = [result EXCEPT ![p] =
                   [kind |-> "record", rec |-> process_file_record(p, TRUE),
                    extraction |-> "ok", logfail |-> FALSE]]
    /\ files' = insert_or_ignore(files, process_file_record(p, TRUE))
    /\ task' = [task EXCEPT ![p] = "done"]
    /\ UNCHANGED <<attempts, yielded, completed, pc, caller, exc, file_list,
                   txn, insert_ret, commits>>
    /\ UNCHANGED aux

\* process_file, lines 119-136, with the wrappers of lines 64-72: the task
\* ends with a record, with None after get_file_info caught an exception,
\* or with an exception of its own.
process_file(p) ==
    /\ task[p] = "running"
    /\ \E extraction \in {"ok", "error"} \cup (IF IsVideo(p) THEN {"unopened"} ELSE {}),
          logfail \in BOOLEAN :
         result' = [result EXCEPT ![p] =
                      [kind       |-> future_kind(extraction, logfail),
                       rec        |-> IF future_kind(extraction, logfail) = "record"
                                      THEN process_file_record(p, extraction = "ok")
                                      ELSE None,
                       extraction |-> extraction,
                       logfail    |-> logfail]]
    /\ task' = [task EXCEPT ![p] = "done"]
    /\ UNCHANGED <<attempts, yielded, completed, pc, caller, exc, file_list,
                   files, txn, insert_ret, commits>>
    /\ UNCHANGED aux

Next ==
    \/ \E p \in Paths : Submit(p)
    \/ \E p \in Paths : Collect(p)
    \/ InsertBegin
    \/ InsertCommit
    \/ Clear
    \/ Shutdown
    \/ Flush
    \/ Interrupt
    \/ \E p \in Paths : Start(p)
    \/ \E p \in Paths : process_file(p)

Spec == Init /\ [][Next]_vars

\* ------------------------------------------------- whole runs, one after another
\* Number of runs of index_folder over the same tree.
MaxRuns == 2

\* The orders in which the futures complete, drawn from: the order of
\* submission, its reverse, and the two with the first two swapped.
Swap12(o) == [i \in 1 .. NumPaths |-> IF i = 1 THEN o[2] ELSE IF i = 2 THEN o[1] ELSE o[i]]

Orders ==
    LET fwd == [i \in 1 .. NumPaths |-> i]
        rev == [i \in 1 .. NumPaths |-> NumPaths + 1 - i]
    IN {fwd, rev, Swap12(fwd), Swap12(rev)}

\* What extraction can give for each file.
Extractions ==
    {x \in [Paths -> {"ok", "unopened", "error"}] :
        \A p \in Paths : x[p] = "unopened" => IsVideo(p)}

RECURSIVE collect_all(_, _, _)
\* index_folder, lines 153-164, in a run where nothing raises and every
\* commit succeeds: the results in completion order are buffered, a full
\* buffer is inserted and cleared, the remainder is inserted at the end.
\* A result is what a future holds: kind "record" with its record, or "nil".
collect_all(rows, buf, results) ==
    IF results = <<>>
    THEN IF buf # <<>> THEN executemany(rows, buf) ELSE rows
    ELSE IF Head(results).kind = "nil"
    THEN collect_all(rows, buf, Tail(results))
    ELSE IF buffer_full(Append(buf, Head(results).rec))
    THEN collect_all(executemany(rows, Append(buf, Head(results).rec)), <<>>, Tail(results))
    ELSE collect_all(rows, Append(buf, Head(results).rec), Tail(results))

\* The results of a run, in completion order.
run_results(order, extraction) ==
    [i \in 1 .. NumPaths |->
        IF extraction[order[i]] = "error"
        THEN [kind |-> "nil", rec |-> None]
        ELSE [kind |-> "record",
              rec  |-> process_file_record(order[i], extraction[order[i]] = "ok")]]

\* index_folder(folder_path) called once more on the files table that the
\* earlier runs left.
index_folder(order, extraction) ==
    /\ Len(runs) < MaxRuns
    /\ files' = collect_all(files, <<>>, run_results(order, extraction))
    /\ runs' = Append(runs, [recorded |-> {p \in Paths : extraction[p] # "error"},
                             rows     |-> Cardinality(files')])
    /\ UNCHANGED <<task, result, attempts, yielded, completed, pc, caller, exc,
                   file_list, txn, insert_ret, commits>>
    /\ UNCHANGED <<fp_in, fp_out, query, matches, worker, perf_lock>>

NextRerun == \E order \in Orders, extraction \in Extractions : index_folder(order, extraction)

SpecRerun == Init /\ [][NextRerun]_<<vars, aux>>

\* ---------------------------------------------------------- generate_file_id
\* Metadata records as get_file_info builds them, over a few sizes, names,
\* extensions and MIME types.
Metas ==
    [size      : {1, 12},
     filename  : {<<"a">>, <<"2", "a">>},
     extension : {<<>>, <<".", "j">>},
     mime_type : {None, <<"m">>}]

InitFingerprint ==
    /\ InitRun
    /\ files = {}
    /\ NoRuns /\ NoSearch /\ NoWorkers
    /\ fp_in \in Metas \X Metas
    /\ fp_out = None

\* generate_file_id is called on both records.
Fingerprint ==
    /\ fp_out = None
    /\ fp_out' = <<generate_file_id(fp_in[1]), generate_file_id(fp_in[2])>>
    /\ UNCHANGED <<vars, runs, fp_in, query, matches, worker, perf_lock>>

SpecFingerprint == InitFingerprint /\ [][Fingerprint]_<<vars, aux>>

\* ---------------------------------------------------------- search_ocr_text
Whitespace == {" ", "\n"}

RECURSIVE split_from(_, _, _)
\* str.split(): the maximal runs of non-whitespace characters of s, in
\* order.  word is the run being read.
split_from(s, i, word) ==
    IF i > Len(s) THEN (IF word = <<>> THEN <<>> ELSE <<word>>)
    ELSE IF s[i] \in Whitespace
    THEN (IF word = <<>> THEN <<>> ELSE <<word>>) \o split_from(s, i + 1, <<>>)
    ELSE split_from(s, i + 1, Append(word, s[i]))

split(s) == split_from(s, 1, <<>>)

\* Python's "word in text" on strings: word occurs in text as a substring.
contains(text, word) ==
    \E i \in 1 .. (Len(text) - Len(word) + 1) : SubSeq(text, i, i + Len(word) - 1) = word

\* search_ocr_text, lines 10-20: the rows with a non-null ocr_text in which
\* some word of the query occurs.
matching_rows(rows, q) ==
    LET query_words == {split(q)[k] : k \in DOMAIN split(q)}
    IN {r \in rows : r.ocr_text # None /\ \E word \in query_words : contains(r.ocr_text, word)}

\* search_ocr_text, lines 14 and 22: the file names returned for the
\* matching rows.
search_ocr_text(rows, q) == {r.filename \o r.extension : r \in matching_rows(rows, q)}

\* A row of the files table with this name and recognized text.
SearchRow(name, text) ==
    [id         |-> <<"1">> \o name,
     filename   |-> name,
     extension  |-> <<".", "j">>,
     size       |-> 1,
     mime_type  |-> <<"m">>,
     resolution |-> None,
     ocr_text   |-> text,
     date       |-> None]

SearchRows ==
    {SearchRow(<<"w">>, <<"a", "b", " ", "c">>),
     SearchRow(<<"x">>, <<"a", "b", "d", "\n", "c", "c">>),
     SearchRow(<<"y">>, <<>>),
     SearchRow(<<"z">>, None)}

Queries ==
    {<<>>, <<"a", "b">>, <<"a">>, <<"a", "b", "x">>, <<" ", "c", " ", "q">>}

InitSearch ==
    /\ InitRun
    /\ files \in SUBSET SearchRows
    /\ NoRuns /\ NoFingerprint /\ NoWorkers
    /\ query \in Queries
    /\ matches = NotSearched

\* search_ocr_text(query) is called on the files table.
Search ==
    /\ ~matches.returned
    /\ matches' = [returned |-> TRUE, rows |-> matching_rows(files, query)]
    /\ UNCHANGED <<vars, runs, fp_in, fp_out, query, worker, perf_lock>>

SpecSearch == InitSearch /\ [][Search]_<<vars, aux>>

\* ------------------------------------------- process_file, step by step
\* The calls of process_file that the pool runs at once, each followed
\* through get_file_info and the timed_function wrappers.  pc is the
\* statement the call is at, info what get_file_info came to, video the
\* state of the cv2.VideoCapture object, blocked whether the call is waiting
\* for the lock of performance_metrics.db, ret what the future got.
LogPcs == {"log_date", "log_info", "log_id", "log_file"}

Active == {p \in Calls : worker[p].pc \notin {"queued", "done"}}

InitWorker ==
    /\ InitRun
    /\ files = {}
    /\ NoRuns /\ NoFingerprint /\ NoSearch
    /\ NoWorkers

\* A free worker thread calls process_file, which calls get_file_info; its
\* first timed call is extract_date_from_filename (line 85).  The
\* statements before it (getsize, line 82) may raise into the except of
\* line 110.
WorkerStart(p) ==
    /\ worker[p].pc = "queued"
    /\ Cardinality(Active) < MaxWorkers
    /\ \/ worker' = [worker EXCEPT ![p].pc = "log_date"]
       \/ worker' = [worker EXCEPT ![p].pc = "log_info", ![p].info = "failed"]
    /\ UNCHANGED <<vars, runs, fp_in, fp_out, query, matches, perf_lock>>

\* log_function_timing, lines 36-41: the INSERT takes the write lock of
\* performance_metrics.db when no other connection holds it.
LogBegin(p) ==
    /\ worker[p].pc \in LogPcs
    /\ perf_lock = 0
    /\ perf_lock' = p
    /\ worker' = [worker EXCEPT ![p].blocked = FALSE]
    /\ UNCHANGED <<vars, runs, fp_in, fp_out, query, matches>>

\* log_function_timing, line 38: the INSERT finds the lock held by another
\* connection and sqlite's busy handler makes the thread wait.
LogWait(p) ==
    /\ worker[p].pc \in LogPcs
    /\ perf_lock \notin {0, p}
    /\ ~worker[p].blocked
    /\ worker' = [worker EXCEPT ![p].blocked = TRUE]
    /\ UNCHANGED <<vars, runs, fp_in, fp_out, query, matches, perf_lock>>

\* log_function_timing, line 38: the lock is still held when the
\* connection's timeout (5 s, the default of sqlite3.connect) has passed and
\* the INSERT raises OperationalError.  Inside get_file_info's try (the log
\* of extract_date_from_filename) it is caught by line 110 and the file has
\* no info; in the wrappers of get_file_info, generate_file_id and
\* process_file nothing catches it and it ends the task.
LogTimeout(p) ==
    /\ worker[p].pc \in LogPcs
    /\ perf_lock \notin {0, p}
    /\ worker[p].blocked
    /\ worker' = [worker EXCEPT ![p] =
                    IF worker[p].pc = "log_date"
                    THEN [@ EXCEPT !.pc = "log_info", !.info = "failed",
                                   !.blocked = FALSE]
                    ELSE [@ EXCEPT !.pc = "done", !.info = "none",
                                   !.blocked = FALSE, !.ret = "raised"]]
    /\ UNCHANGED <<vars, runs, fp_in, fp_out, query, matches, perf_lock>>

\* What follows the timed call whose log has been written: the body of
\* get_file_info after line 85; process_file's test of line 121, then
\* generate_file_id (line 126) or the return of line 123; the return of the
\* record (line 134).
after_log(w) ==
    CASE w.pc = "log_date" -> [w EXCEPT !.pc = "body"]
      [] w.pc = "log_info" ->
            [w EXCEPT !.pc = IF w.info = "ok" THEN "log_id" ELSE "log_file"]
      [] w.pc = "log_id"   -> [w EXCEPT !.pc = "log_file"]
      [] w.pc = "log_file" ->
            [w EXCEPT !.pc = "done", !.info = "none",
                      !.ret = IF w.info = "ok" THEN "record" ELSE "nil"]

\* log_function_timing, line 42: conn.commit() ends the transaction and
\* frees the lock; the wrapper returns the function's result.
LogCommit(p) ==
    /\ worker[p].pc \in LogPcs
    /\ perf_lock = p
    /\ perf_lock' = 0
    /\ worker' = [worker EXCEPT ![p] = after_log(@)]
    /\ UNCHANGED <<vars, runs, fp_in, fp_out, query, matches>>

\* get_file_info, lines 87-92 and 101-112, for a file that is not a video:
\* the image is opened and read inside its with block, which may raise.
Body(p) ==
    /\ worker[p].pc = "body"
    /\ ~IsVideo(p)
    /\ \E outcome \in {"ok", "failed"} :
          worker' = [worker EXCEPT ![p].pc = "log_info", ![p].info = outcome]
    /\ UNCHANGED <<vars, runs, fp_in, fp_out, query, matches, perf_lock>>

\* get_file_info, lines 94-95: video = cv2.VideoCapture(file_path), then the
\* test of video.isOpened().
OpenVideo(p) ==
    /\ worker[p].pc = "body"
    /\ IsVideo(p)
    /\ \/ worker' = [worker EXCEPT ![p].pc = "read", ![p].video = "open"]
       \/ worker' = [worker EXCEPT ![p].pc = "release", ![p].video = "unopened"]
    /\ UNCHANGED <<vars, runs, fp_in, fp_out, query, matches, perf_lock>>

\* get_file_info, lines 96-98: the two video.get calls and the int
\* conversions.  An exception in them goes to the except of line 110, past
\* the release of line 99; whether the object's finalizer then frees the
\* handle when the frame is dropped depends on the interpreter.
ReadSize(p) ==
    /\ worker[p].pc = "read"
    /\ \/ worker' = [worker EXCEPT ![p].pc = "release"]
       \/ \E finalized \in BOOLEAN :
             worker' = [worker EXCEPT
                          ![p].pc = "log_info",
                          ![p].info = "failed",
                          ![p].video = IF finalized THEN "released" ELSE "open"]
    /\ UNCHANGED <<vars, runs, fp_in, fp_out, query, matches, perf_lock>>

\* get_file_info, lines 99-109: video.release() and the return of the info.
Release(p) ==
    /\ worker[p].pc = "release"
    /\ worker' = [worker EXCEPT ![p].pc = "log_info", ![p].info = "ok",
                                ![p].video = "released"]
    /\ UNCHANGED <<vars, runs, fp_in, fp_out, query, matches, perf_lock>>

NextWorker ==
    \E p \in Calls :
        \/ WorkerStart(p)
        \/ LogBegin(p)
        \/ LogWait(p)
        \/ LogTimeout(p)
        \/ LogCommit(p)
        \/ Body(p)
        \/ OpenVideo(p)
        \/ ReadSize(p)
        \/ Release(p)

SpecWorker == InitWorker /\ [][NextWorker]_<<vars, aux>>

\* ------------------------------------------------------------- properties
Last(seq) == seq[Len(seq)]

Range(seq) == {seq[k] : k \in DOMAIN seq}

\* The calls of insert_files_into_db whose list held the record of file p.
CallsWith(p) == {i \in DOMAIN commits : \E r \in Range(commits[i].batch) : r.path = p}

\* The records of a list that would be new rows of the table.
NewIn(list, rows) == {r \in Range(list) : r.id \notin Ids(rows)}

\* A step in which a call of insert_files_into_db ends with this outcome.
CallEnds(outcome) ==
    /\ Len(commits') = Len(commits) + 1
    /\ Last(commits').outcome = outcome

\* C1: the files table never holds two rows with the same id, whatever the
\* completion order of the workers, the commit failures and the interrupts.
C1_OneRowPerId ==
    \A r1, r2 \in files : r1.id = r2.id => r1 = r2

\* A committed batch held a record whose id was already taken by a row with
\* other contents, and the record was dropped.
C1_Witness ==
    \E i \in DOMAIN commits :
        /\ commits[i].outcome = "committed"
        /\ \E r \in Range(commits[i].batch) :
              r.id \in Ids(files) /\ Row(r) \notin files

\* C2: a call of insert_files_into_db that fails leaves the files table as
\* it was: no record of the batch is added and every row committed before is
\* still there, unchanged.
C2_FailedBatchAtomic ==
    [][CallEnds("failed") => files' = files]_vars

\* A batch with records that would be new rows failed after an earlier batch
\* had been committed.
C2_Witness ==
    \E i, j \in DOMAIN commits :
        /\ i < j
        /\ commits[i].outcome = "committed"
        /\ commits[j].outcome = "failed"
        /\ NewIn(commits[j].batch, files) # {}
        /\ files # {}

\* C3 (as claimed): once index_folder has gone on after a failed batch, it
\* knows of the failure (the call returned something other than None) or the
\* records of the batch are still in file_list.
C3_FailureSurfaced ==
    \A i \in DOMAIN commits :
        (commits[i].outcome = "failed" /\ commits[i].site = "loop"
            /\ (i < Len(commits) \/ pc # "clear"))
        => \/ insert_ret # None
           \/ Range(commits[i].batch) \subseteq Range(file_list)

\* C4 (as claimed): no exception of a process_file task leaves the result
\* loop of index_folder.
C4_NoTaskFailurePropagates ==
    exc # "TaskError"

\* C5: in a run whose failures are exceptions inside get_file_info (no
\* interrupt, no exception outside its try), when index_folder ends every
\* file whose process_file returned a record has its id in the files table,
\* unless the insert of its batch failed.
C5_SiblingsRecorded ==
    (/\ pc \in {"done", "raised"}
     /\ \A p \in Paths : ~result[p].logfail
     /\ \E p \in Paths : result[p].extraction = "error")
    => \A q \in Paths :
          (/\ result[q].kind = "record"
           /\ \A i \in CallsWith(q) : commits[i].outcome = "committed")
          => result[q].rec.id \in Ids(files)

\* index_folder returned after one file failed in get_file_info, and a
\* sibling's row is in the table.
C5_Witness ==
    /\ pc = "done"
    /\ \E p, q \in Paths :
          /\ result[p].extraction = "error" /\ result[p].kind = "nil"
          /\ result[q].kind = "record" /\ Row(result[q].rec) \in files

\* C6 (as claimed): when an interrupt ends index_folder, every record that
\* was in file_list has been handed to insert_files_into_db.
C6_FlushOnInterrupt ==
    pc \in {"exited", "abandoned"} =>
        \A r \in Range(file_list) : CallsWith(r.path) # {}

\* C7: every change of the files table adds the whole batch: an interrupt
\* before the insert, between the insert and the commit or after the commit
\* leaves the batch's new rows all in the table or all out of it.
C7_BatchAllOrNothing ==
    [][/\ files' # files => (pc = "commit" /\ files' = executemany(files, file_list))
       /\ (exc' = "SystemExit" /\ exc # "SystemExit") => files' = files]_vars

\* An interrupt arrived between the executemany and the commit of a batch
\* with at least two records that would have been new rows.
C7_Witness ==
    \E i \in DOMAIN commits :
        /\ commits[i].outcome = "interrupted in transaction"
        /\ Cardinality(Ids(NewIn(commits[i].batch, files))) >= 2

\* C8: the files table and its transaction are touched only by the main
\* thread inside insert_files_into_db, one call at a time: a step of a
\* worker leaves both alone, and a call starts only when no transaction is
\* open.
C8_SingleWriter ==
    [][/\ (files' # files \/ txn' # txn) => pc \in {"insert", "commit"}
       /\ (\E p \in Paths : task[p] = "running" /\ task'[p] = "done")
             => (files' = files /\ txn' = txn)
       /\ (pc' = "insert" /\ pc # "insert") => ~txn.open]_vars

\* A transaction is open while a worker is running process_file.
C8_Witness ==
    /\ txn.open
    /\ Running # {}

\* The claims of C9 that hold in every state.
C9_AtMostOnce ==
    /\ \A p \in Paths : attempts[p] <= 1
    /\ \A p \in Paths : result[p].kind # "pending" => attempts[p] = 1
    /\ completed = Cardinality(yielded)

\* The claims of C9 about steps: a result, once produced, is never replaced,
\* and the progress count never decreases.
C9_Steps ==
    /\ \A p \in Paths : result[p].kind # "pending" => result'[p] = result[p]
    /\ completed' >= completed

AllSubmittedDone ==
    \A p \in Submitted : attempts[p] = 1 /\ result[p].kind # "pending"

\* C9 (as claimed): every submitted file is attempted once and gets one
\* result, the progress count never decreases, and index_folder is outside
\* the pool's with block only when every submitted file has its result.
C9_PoolCompletes ==
    /\ [](C9_AtMostOnce /\ (pc \notin InPool => AllSubmittedDone))
    /\ [][C9_Steps]_vars

\* C9 (amended): the same, except that an interrupt during the wait of the
\* pool's shutdown lets index_folder leave with submitted files unfinished.
C9_PoolCompletesUnlessAbandoned ==
    /\ [](C9_AtMostOnce /\ (pc \notin (InPool \cup {"abandoned"}) => AllSubmittedDone))
    /\ [][C9_Steps]_vars

\* index_folder left the pool after an exception in the result loop, with
\* files whose futures it never collected.
C9_Witness ==
    /\ pc \in {"raised", "exited"}
    /\ Submitted = Paths
    /\ yielded # Paths
    /\ Cardinality(yielded) = completed

\* C10: when index_folder returns, every record a worker produced was in
\* the list of exactly one call of insert_files_into_db, and the records
\* left in file_list are the list of the last call, the final one.
C10_EveryRecordCommittedOnce ==
    pc = "done" =>
        /\ \A p \in Paths : result[p].kind = "record" => Cardinality(CallsWith(p)) = 1
        /\ file_list # <<>> =>
              (commits # <<>> /\ Last(commits).site = "final"
                 /\ Last(commits).batch = file_list)

\* index_folder returned after a full batch and a final flush of a partial
\* one.
C10_Witness ==
    /\ pc = "done"
    /\ Len(file_list) >= 1
    /\ Len(file_list) < BatchSize
    /\ Len(commits) >= 2
    /\ Last(commits).site = "final"

\* The files whose process_file returned a record.
Recorded == {p \in Paths : result[p].kind = "record"}

\* ceil(n / d)
CeilDiv(n, d) == (n + d - 1) \div d

\* C11: when index_folder returns after N records (None results not
\* counted), insert_files_into_db has been called ceil(N / threshold) times:
\* every call but the last with exactly threshold records, the last with
\* N mod threshold records when that is not zero.
C11_BatchSizes ==
    pc = "done" =>
        LET N == Cardinality(Recorded)
        IN /\ Len(commits) = CeilDiv(N, BatchSize)
           /\ \A i \in DOMAIN commits :
                 Len(commits[i].batch) =
                    IF i < Len(commits) \/ N % BatchSize = 0
                    THEN BatchSize
                    ELSE N % BatchSize

\* index_folder returned after a None result, a full batch and a partial
\* final one.
C11_Witness ==
    /\ pc = "done"
    /\ \E p \in Paths : result[p].kind = "nil"
    /\ Len(commits) >= 2
    /\ Len(commits[1].batch) = BatchSize
    /\ Len(Last(commits).batch) = Cardinality(Recorded) % BatchSize
    /\ Cardinality(Recorded) % BatchSize # 0

RECURSIVE Flatten(_)
Flatten(seqs) == IF seqs = <<>> THEN <<>> ELSE Head(seqs) \o Flatten(Tail(seqs))

\* The step-by-step run and collect_all agree: when index_folder returns
\* and every commit succeeded, the table holds what collect_all gives for
\* the records in the order they were committed.
RunMatchesCollectAll ==
    (pc = "done" /\ \A i \in DOMAIN commits : commits[i].outcome = "committed")
    => LET recs == Flatten([i \in DOMAIN commits |-> commits[i].batch])
       IN files = collect_all({}, <<>>, [k \in DOMAIN recs |-> [kind |-> "record", rec |-> recs[k]]])

\* C12: a run of index_folder that records no file the run before it did not
\* record (the same tree, indexed again) leaves the row count of the files
\* table as the run before left it.
C12_RerunKeepsRowCount ==
    \A i \in DOMAIN runs :
        (i > 1 /\ runs[i].recorded \subseteq runs[i - 1].recorded)
        => runs[i].rows = runs[i - 1].rows

\* The tree was indexed twice, every file recorded both times, and rows were
\* dropped as duplicates.
C12_Witness ==
    /\ Len(runs) >= 2
    /\ runs[1].recorded = Paths
    /\ runs[2].recorded = Paths
    /\ runs[2].rows = runs[1].rows
    /\ runs[1].rows = Cardinality(files)
    /\ Cardinality(files) < NumPaths

IdFields == {"size", "filename", "extension", "mime_type"}

\* C13 (as claimed): two metadata records get the same id exactly when they
\* agree on size, filename, extension and mime_type.
C13_FingerprintInjective ==
    fp_out # None =>
        (fp_out[1] = fp_out[2] <=> \A f \in IdFields : fp_in[1][f] = fp_in[2][f])

\* What holds of generate_file_id: records that agree on the four fields get
\* the same id, and records that differ in exactly one of them get different
\* ids.
FingerprintOneField ==
    fp_out # None =>
        /\ (\A f \in IdFields : fp_in[1][f] = fp_in[2][f]) => fp_out[1] = fp_out[2]
        /\ Cardinality({f \in IdFields : fp_in[1][f] # fp_in[2][f]}) = 1
              => fp_out[1] # fp_out[2]

Tokens(s) == {split(s)[k] : k \in DOMAIN split(s)}

\* C14 (as claimed): search_ocr_text matches exactly the rows whose
\* recognized text is not null and has a whitespace-delimited token equal to
\* a token of the query.
C14_TokenEquality ==
    matches.returned =>
        matches.rows = {r \in files : r.ocr_text # None /\ Tokens(r.ocr_text) \cap Tokens(query) # {}}

\* What holds of search_ocr_text: it matches exactly the rows whose text is
\* not null and has a token of which some query token is a substring.
SearchBySubstring ==
    matches.returned =>
        matches.rows = {r \in files :
                     /\ r.ocr_text # None
                     /\ \E t \in Tokens(r.ocr_text), w \in Tokens(query) : contains(t, w)}

IsImageMime(m) == m # None /\ startswith(m, <<"i", "m", "a", "g", "e">>)

IsVideoMime(m) == m # None /\ startswith(m, <<"v", "i", "d", "e", "o">>)

\* The records and rows of an image have a resolution and a text, those of
\* a file that is neither image nor video have neither.
ImageAndOtherShape(r) ==
    /\ IsImageMime(r.mime_type) => (r.resolution # None /\ r.ocr_text # None)
    /\ (~IsImageMime(r.mime_type) /\ ~IsVideoMime(r.mime_type))
          => (r.resolution = None /\ r.ocr_text = None)

\* C15 (as claimed): every record a task produced and every row of the files
\* table has a resolution and no text for a video, both for an image,
\* neither for any other file.
C15_ShapeByMime ==
    \A r \in {result[p].rec : p \in Recorded} \cup files :
        /\ ImageAndOtherShape(r)
        /\ IsVideoMime(r.mime_type) => (r.resolution # None /\ r.ocr_text = None)

\* C15 (amended): the same, except that a video has a resolution exactly
\* when its decoder handle opened; it never has a text.
C15_ShapeByMimeAndOpen ==
    /\ \A r \in {result[p].rec : p \in Recorded} \cup files :
          /\ ImageAndOtherShape(r)
          /\ IsVideoMime(r.mime_type) => r.ocr_text = None
    /\ \A p \in Recorded :
          IsVideoMime(result[p].rec.mime_type)
             => (result[p].rec.resolution # None <=> result[p].extraction = "ok")

\* The table holds the row of a video without resolution, the row of an
\* image and the row of a file without MIME type.
C15_Witness ==
    /\ \E r \in files : IsVideoMime(r.mime_type) /\ r.resolution = None /\ r.ocr_text = None
    /\ \E r \in files : IsImageMime(r.mime_type) /\ r.resolution # None /\ r.ocr_text # None
    /\ \E r \in files : r.mime_type = None

\* C16: no step removes or changes a row of the files table, and a commit
\* that succeeds leaves every record of its batch with a row of its id: a
\* record whose id is taken is ignored without failing the batch, and the
\* first record of each id that was not taken is inserted as it is.
C16_RowsNeverChange ==
    [][/\ files \subseteq files'
       /\ CallEnds("committed") =>
             LET batch == Last(commits').batch IN
             \A k \in DOMAIN batch :
                 /\ batch[k].id \in Ids(files')
                 /\ (/\ batch[k].id \notin Ids(files)
                     /\ \A h \in 1 .. (k - 1) : batch[h].id # batch[k].id)
                       => Row(batch[k]) \in files']_vars

\* A committed batch held a record whose id was taken by a row of an earlier
\* batch with another resolution and text, which is still there, and a
\* record that was inserted.
C16_Witness ==
    \E i, j \in DOMAIN commits :
        /\ j < i
        /\ commits[i].outcome = "committed"
        /\ commits[j].outcome = "committed"
        /\ \E old \in Range(commits[j].batch), r, r2 \in Range(commits[i].batch) :
              /\ old.id = r.id
              /\ Row(old) \in files
              /\ Row(r) \notin files
              /\ Row(old).ocr_text # Row(r).ocr_text
              /\ r2.id # r.id
              /\ Row(r2) \in files

\* C19: the number of process_file calls running at once never exceeds the
\* pool's worker limit; further submitted tasks stay queued.
C19_BoundedWorkers ==
    Cardinality(Running) <= MaxWorkers

\* Every worker is busy and a submitted task is waiting in the queue.
C19_Witness ==
    /\ Cardinality(Running) = MaxWorkers
    /\ \E p \in Paths : task[p] = "queued"

\* C20: file_list never holds more records than the threshold, and holds
\* fewer whenever the result loop is between two iterations or has ended,
\* whether the insert of the full buffer succeeded or failed.
C20_BufferBounded ==
    /\ Len(file_list) <= BatchSize
    /\ (pc \in {"collect", "flush"} \/ (pc = "shutdown" /\ exc # "SystemExit"))
          => Len(file_list) < BatchSize

\* The loop went on with an empty buffer after the insert of a full buffer
\* failed.
C20_Witness ==
    /\ pc = "collect"
    /\ file_list = <<>>
    /\ commits # <<>>
    /\ Last(commits).outcome = "failed"
    /\ Len(Last(commits).batch) = BatchSize

\* The calls of process_file that are past their call of get_file_info.
PastGetFileInfo ==
    {p \in Calls : worker[p].pc \in {"log_info", "log_id", "log_file", "done"}}

\* C17: no call of process_file is ever made to wait by another call, and
\* none is ended or left without its info by another call.
C17_WorkersIndependent ==
    \A p \in Calls : ~worker[p].blocked /\ worker[p].ret # "raised"

\* Only a call that is waiting for the lock of the timing database is ended
\* by an exception: a call that finds it free writes its timing and goes on.
C17_RaisedOnlyWhenBlocked ==
    [][\A p \in Calls :
          (worker[p].ret # "raised" /\ worker'[p].ret = "raised")
             => (worker[p].blocked /\ perf_lock \notin {0, p})]_<<vars, aux>>

\* C18: once get_file_info has been left, the video handle it created, if
\* any, has been released, whichever way it was left.
C18_HandleReleased ==
    \A p \in PastGetFileInfo : worker[p].video \in {"none", "released"}

\* The handle is released on the two paths that reach line 99: the return
\* of the info of a video, with or without an opened handle.
C18_ReleasedOnReturn ==
    \A p \in PastGetFileInfo :
        (IsVideo(p) /\ (worker[p].info = "ok" \/ worker[p].ret = "record"))
           => worker[p].video = "released"

====
